---- MODULE Spec2Model ----
(***************************************************************************)
(* Model of backup_manager (src/main.py): one run of main(), which ensures *)
(* the destination directory, loads the target declarations and then, for  *)
(* every target, connects, and for every (directory, child) creates a      *)
(* remote tarball, copies it and deletes it, and finally closes the        *)
(* session.  The remote side (commands started by exec_command) is part    *)
(* of the model: a remote command runs until it finishes on its own.       *)
(***************************************************************************)
EXTENDS Integers, Sequences, FiniteSets, TLC

(* ---- bounds of the model ---- *)
\* targets.yaml holds at most MaxItems items: declarations, their directories
\* and the children of these
MaxItems == 5

\* the wall clock makes at most MaxClock ticks (seconds) during a run
MaxClock == 2

\* host and child names of the file name computation have at most MaxNameLen characters
MaxNameLen == 3

(* ---- the declaration format: class Directory, class SSHBackupTarget ---- *)
AllFields == {"name", "hostname", "username", "password", "port", "directories"}

\* port has a default (port: int = 22), every other field is required
RequiredFields == AllFields \ {"port"}

DefaultPort == 22

\* the sets of fields a declaration in targets.yaml may carry
KeySets == {RequiredFields, AllFields \ {"password"}}

ChildNames == {"", "etc"}

HostNames == {"db1", "db2"}

SeqUpTo(S, n) == UNION {[1..k -> S] : k \in 0..n}

\* class Directory with at most n children
Directory(n) == [parent : {"/srv"}, child_targets : SeqUpTo(ChildNames, n)]

\* the lists of directories that hold at most `budget` items
RECURSIVE DirLists(_)
DirLists(budget) ==
    IF budget = 0 THEN {<<>>}
    ELSE {<<>>} \cup
         UNION {{<<dir>> \o rest :
                    rest \in DirLists(budget - 1 - Len(dir.child_targets))} :
                  dir \in Directory(budget - 1)}

\* the number of items of a list of directories
RECURSIVE Items(_)
Items(dirs) ==
    IF dirs = <<>> THEN 0 ELSE 1 + Len(Head(dirs).child_targets) + Items(Tail(dirs))

\* class SSHBackupTarget, as declared in targets.yaml, with at most n items below it
SSHBackupTarget(n) == [keys : KeySets, name : HostNames, directories : DirLists(n)]

\* the lists of declarations that hold at most `budget` items
RECURSIVE TargetListsOf(_)
TargetListsOf(budget) ==
    IF budget = 0 THEN {<<>>}
    ELSE {<<>>} \cup
         UNION {{<<decl>> \o rest :
                    rest \in TargetListsOf(budget - 1 - Items(decl.directories))} :
                  decl \in SSHBackupTarget(budget - 1)}

TargetLists == TargetListsOf(MaxItems)

VARIABLES
    fs,                   \* local filesystem: the destination directory and its parent
    targets_yaml,         \* content of targets.yaml
    targets,              \* main's local `targets` (<<>> until loaded)
    pc,                   \* position of main
    exc,                  \* exception that left main ("none" while none did)
    ti,                   \* index of the target of the outer loop
    ji,                   \* index of the (directory, child) pair of the inner loops
    target_tarball_path,  \* main's local target_tarball_path (0: not yet set)
    uuid_next,            \* the next token uuid4() returns
    session,              \* per target: "none", "open" or "closed"
    running,              \* remote commands started and not yet finished
    exit_status,          \* exit status of the finished tar commands, by path
    remote_files,         \* scratch archives present on the remote hosts
    calls,                \* the transport calls made so far, in order
    rm_status,            \* exit status of the finished rm commands, by path
    now,                  \* the wall clock, in seconds since 2024-01-01 00:00:00
    dest_files,           \* names of the artifact files in the destination directory
    naming                \* inputs and results of the file name computation alone

vars == <<fs, targets_yaml, targets, pc, exc, ti, ji, target_tarball_path,
          uuid_next, session, running, exit_status, remote_files, calls,
          rm_status, now, dest_files, naming>>

(* ---- the nested loops of main, flattened ---- *)

\* the (directory, child) pairs of one directory list, in iteration order
RECURSIVE PairsFrom(_, _, _)
PairsFrom(dirs, d, c) ==
    IF d > Len(dirs) THEN <<>>
    ELSE IF c > Len(dirs[d].child_targets) THEN PairsFrom(dirs, d + 1, 1)
    ELSE <<[d |-> d, c |-> c]>> \o PairsFrom(dirs, d, c + 1)

JobsOf(t) == PairsFrom(targets[t].directories, 1, 1)

Job(t, j) == [t |-> t, d |-> JobsOf(t)[j].d, c |-> JobsOf(t)[j].c]

NoJob == [t |-> 0, d |-> 0, c |-> 0]

\* the child name (child_target) of a job
ChildOf(job) == targets[job.t].directories[job.d].child_targets[job.c]

Call(op, job, path, res) == [op |-> op, job |-> job, path |-> path, res |-> res]

\* leaving main with an exception
Raise(e) == pc' = "raised" /\ exc' = e

(* ---- pydantic validation in load_targets ---- *)
ValidatesOk(decl) == RequiredFields \subseteq decl.keys

ParseTarget(decl) ==
    [name |-> decl.name, port |-> DefaultPort, directories |-> decl.directories]

(* ---- copy_tarball line 63: the name of the artifact file ---- *)
Pad2(n) == IF n < 10 THEN "0" \o ToString(n) ELSE ToString(n)

\* strftime('%Y-%m-%d_%H-%M-%S') of the clock value t (t within January 2024)
Strftime(t) ==
    "2024-01-" \o Pad2(1 + (t \div 86400)) \o "_" \o Pad2((t \div 3600) % 24)
        \o "-" \o Pad2((t \div 60) % 60) \o "-" \o Pad2(t % 60)

TargetFileName(host_name, target, t) ==
    host_name \o "_" \o target \o "_" \o Strftime(t) \o ".tar.xz"

\* no file name computation under way
NoNaming == [host1 |-> "", child1 |-> "", t1 |-> 0, host2 |-> "", child2 |-> "", t2 |-> 0,
             file1 |-> "", file2 |-> ""]

(* ---- state after construction ---- *)
Init ==
    /\ fs \in {f \in [dest : BOOLEAN, parent : BOOLEAN, writable : BOOLEAN] :
                 f.dest => f.parent}
    /\ targets_yaml \in TargetLists
    /\ targets = <<>>
    /\ pc = "mkdir"
    /\ exc = "none"
    /\ ti = 0
    /\ ji = 0
    /\ target_tarball_path = 0
    /\ uuid_next = 1
    /\ session = <<>>
    /\ running = {}
    /\ exit_status = <<>>
    /\ remote_files = {}
    /\ calls = <<>>
    /\ rm_status = <<>>
    /\ now = 0
    /\ dest_files = {}
    /\ naming = NoNaming

(* ---- main, lines 83-89: os.path.exists(dest) or os.mkdir(dest) ---- *)
Mkdir ==
    /\ pc = "mkdir"
    /\ IF fs.dest
         THEN pc' = "load" /\ UNCHANGED <<fs, exc>>
         ELSE IF fs.parent /\ fs.writable
                THEN /\ fs' = [fs EXCEPT !.dest = TRUE]
                     /\ pc' = "load"
                     /\ UNCHANGED exc
                ELSE Raise("OSError") /\ UNCHANGED fs
    /\ UNCHANGED <<targets_yaml, targets, ti, ji, target_tarball_path, uuid_next,
                   session, running, exit_status, remote_files, calls>>
    /\ UNCHANGED <<rm_status, now, dest_files, naming>>

(* ---- load_targets, called at line 92 ---- *)
LoadTargets ==
    /\ pc = "load"
    /\ IF \A i \in 1..Len(targets_yaml) : ValidatesOk(targets_yaml[i])
         THEN /\ targets' = [i \in 1..Len(targets_yaml) |-> ParseTarget(targets_yaml[i])]
              /\ session' = [i \in 1..Len(targets_yaml) |-> "none"]
              /\ IF Len(targets_yaml) = 0
                   THEN pc' = "done" /\ UNCHANGED ti
                   ELSE pc' = "connect" /\ ti' = 1
              /\ UNCHANGED exc
         ELSE /\ Raise("ValidationError")
              /\ UNCHANGED <<targets, session, ti>>
    /\ UNCHANGED <<fs, targets_yaml, ji, target_tarball_path, uuid_next,
                   running, exit_status, remote_files, calls>>
    /\ UNCHANGED <<rm_status, now, dest_files, naming>>

(* ---- connect, called at line 94 ---- *)
Connect ==
    /\ pc = "connect"
    /\ \E ok \in BOOLEAN :
         IF ok
           THEN /\ session' = [session EXCEPT ![ti] = "open"]
                /\ calls' = Append(calls, Call("connect", [NoJob EXCEPT !.t = ti], 0, "ok"))
                /\ IF Len(JobsOf(ti)) = 0
                     THEN pc' = "close" /\ ji' = 0
                     ELSE pc' = "tar" /\ ji' = 1
                /\ UNCHANGED exc
           ELSE /\ calls' = Append(calls, Call("connect", [NoJob EXCEPT !.t = ti], 0, "raise"))
                /\ Raise("SSHException")
                /\ UNCHANGED <<session, ji>>
    /\ UNCHANGED <<fs, targets_yaml, targets, ti, target_tarball_path, uuid_next,
                   running, exit_status, remote_files>>
    /\ UNCHANGED <<rm_status, now, dest_files, naming>>

\* main as it would be with the token of line 99 generated once per run instead of
\* once per job
CreateTarballExecSamePath ==
    /\ pc = "tar"
    /\ target_tarball_path' =
          IF target_tarball_path = 0 THEN uuid_next ELSE target_tarball_path
    /\ uuid_next' = uuid_next + 1
    /\ \E ok \in BOOLEAN :
         IF ok
           THEN /\ running' = running \cup
                       {[kind |-> "tar", job |-> Job(ti, ji), path |-> target_tarball_path']}
                /\ calls' = Append(calls, Call("exec_tar", Job(ti, ji),
                                                target_tarball_path', "ok"))
                /\ pc' = "tar_wait"
                /\ UNCHANGED exc
           ELSE /\ calls' = Append(calls, Call("exec_tar", Job(ti, ji),
                                                target_tarball_path', "raise"))
                /\ Raise("SSHException")
                /\ UNCHANGED running
    /\ UNCHANGED <<fs, targets_yaml, targets, ti, ji, session, exit_status, remote_files>>
    /\ UNCHANGED <<rm_status, now, dest_files, naming>>

\* create_tarball as it would be without the wait of line 48: the tar command
\* is started and copy_tarball follows at once
CreateTarballExecNoWait ==
    /\ pc = "tar"
    /\ target_tarball_path' = uuid_next
    /\ uuid_next' = uuid_next + 1
    /\ \E ok \in BOOLEAN :
         IF ok
           THEN /\ running' = running \cup
                       {[kind |-> "tar", job |-> Job(ti, ji), path |-> uuid_next]}
                /\ calls' = Append(calls, Call("exec_tar", Job(ti, ji), uuid_next, "ok"))
                /\ pc' = "copy"
                /\ UNCHANGED exc
           ELSE /\ calls' = Append(calls, Call("exec_tar", Job(ti, ji), uuid_next, "raise"))
                /\ Raise("SSHException")
                /\ UNCHANGED running
    /\ UNCHANGED <<fs, targets_yaml, targets, ti, ji, session, exit_status, remote_files>>
    /\ UNCHANGED <<rm_status, now, dest_files, naming>>

(* ---- main line 99 and create_tarball lines 43-46: start the tar command ---- *)
CreateTarballExec ==
    /\ pc = "tar"
    /\ target_tarball_path' = uuid_next
    /\ uuid_next' = uuid_next + 1
    /\ \E ok \in BOOLEAN :
         IF ok
           THEN /\ running' = running \cup
                       {[kind |-> "tar", job |-> Job(ti, ji), path |-> uuid_next]}
                /\ calls' = Append(calls, Call("exec_tar", Job(ti, ji), uuid_next, "ok"))
                /\ pc' = "tar_wait"
                /\ UNCHANGED exc
           ELSE /\ calls' = Append(calls, Call("exec_tar", Job(ti, ji), uuid_next, "raise"))
                /\ Raise("SSHException")
                /\ UNCHANGED running
    /\ UNCHANGED <<fs, targets_yaml, targets, ti, ji, session, exit_status, remote_files>>
    /\ UNCHANGED <<rm_status, now, dest_files, naming>>

(* ---- the remote host: a started tar command finishes ---- *)
\* exit status 0 leaves the archive at the path; a failed tar may or may not
\* leave a (partial) file behind
RemoteTarFinish ==
    \E cmd \in running :
      /\ cmd.kind = "tar"
      /\ \E status \in {0, 1}, left \in BOOLEAN :
            /\ status = 0 => left
            /\ exit_status' = [p \in DOMAIN exit_status \cup {cmd.path} |->
                                 IF p = cmd.path THEN status ELSE exit_status[p]]
            /\ remote_files' = IF left THEN remote_files \cup {cmd.path} ELSE remote_files
      /\ running' = running \ {cmd}
      /\ UNCHANGED <<fs, targets_yaml, targets, pc, exc, ti, ji, target_tarball_path,
                     uuid_next, session, calls>>
    /\ UNCHANGED <<rm_status, now, dest_files, naming>>

(* ---- create_tarball lines 47-52: recv_exit_status blocks until tar is over ---- *)
RecvExitStatus ==
    /\ pc = "tar_wait"
    /\ target_tarball_path \in DOMAIN exit_status
    /\ calls' = Append(calls, Call("exit_status", Job(ti, ji), target_tarball_path,
                                   exit_status[target_tarball_path]))
    /\ pc' = "copy"
    /\ UNCHANGED <<fs, targets_yaml, targets, exc, ti, ji, target_tarball_path, uuid_next,
                   session, running, exit_status, remote_files>>
    /\ UNCHANGED <<rm_status, now, dest_files, naming>>

(* ---- copy_tarball, called at line 103 whatever create_tarball logged ---- *)
\* sftp.get succeeds only if the remote file exists and the local file can be written
CopyTarball ==
    /\ pc = "copy"
    /\ \E ok \in BOOLEAN :
         IF ok /\ target_tarball_path \in remote_files /\ fs.writable
           THEN /\ calls' = Append(calls, Call("get", Job(ti, ji), target_tarball_path, "ok"))
                /\ dest_files' = dest_files \cup
                       {TargetFileName(targets[ti].name, ChildOf(Job(ti, ji)), now)}
                /\ pc' = "rm"
                /\ UNCHANGED exc
           ELSE /\ calls' = Append(calls, Call("get", Job(ti, ji), target_tarball_path, "raise"))
                /\ Raise("IOError")
                /\ UNCHANGED dest_files
    /\ UNCHANGED <<fs, targets_yaml, targets, ti, ji, target_tarball_path, uuid_next,
                   session, running, exit_status, remote_files>>
    /\ UNCHANGED <<rm_status, now, naming>>

\* delete_tarball as it would be if it issued the rm a second time
DeleteTarballTwice ==
    /\ pc = "rm"
    /\ \E ok \in BOOLEAN :
         IF ok
           THEN /\ running' = running \cup
                       {[kind |-> "rm", job |-> Job(ti, ji), path |-> target_tarball_path]}
                /\ calls' = calls \o
                       <<Call("exec_rm", Job(ti, ji), target_tarball_path, "ok"),
                         Call("exec_rm", Job(ti, ji), target_tarball_path, "ok")>>
                /\ IF ji < Len(JobsOf(ti))
                     THEN pc' = "tar" /\ ji' = ji + 1
                     ELSE pc' = "close" /\ UNCHANGED ji
                /\ UNCHANGED exc
           ELSE /\ calls' = Append(calls, Call("exec_rm", Job(ti, ji), target_tarball_path, "raise"))
                /\ Raise("SSHException")
                /\ UNCHANGED <<running, ji>>
    /\ UNCHANGED <<fs, targets_yaml, targets, ti, target_tarball_path, uuid_next,
                   session, exit_status, remote_files>>
    /\ UNCHANGED <<rm_status, now, dest_files, naming>>

(* ---- delete_tarball lines 72-74: start rm and return at once ---- *)
DeleteTarball ==
    /\ pc = "rm"
    /\ \E ok \in BOOLEAN :
         IF ok
           THEN /\ running' = running \cup
                       {[kind |-> "rm", job |-> Job(ti, ji), path |-> target_tarball_path]}
                /\ calls' = Append(calls, Call("exec_rm", Job(ti, ji), target_tarball_path, "ok"))
                /\ IF ji < Len(JobsOf(ti))
                     THEN pc' = "tar" /\ ji' = ji + 1
                     ELSE pc' = "close" /\ UNCHANGED ji
                /\ UNCHANGED exc
           ELSE /\ calls' = Append(calls, Call("exec_rm", Job(ti, ji), target_tarball_path, "raise"))
                /\ Raise("SSHException")
                /\ UNCHANGED <<running, ji>>
    /\ UNCHANGED <<fs, targets_yaml, targets, ti, target_tarball_path, uuid_next,
                   session, exit_status, remote_files>>
    /\ UNCHANGED <<rm_status, now, dest_files, naming>>

(* ---- the remote host: a started rm command finishes ---- *)
\* rm removes the file and ends with status 0, or fails (the file is absent or
\* cannot be removed) and ends with a nonzero status
RemoteRmFinish ==
    \E cmd \in running :
      /\ cmd.kind = "rm"
      /\ \E status \in {0, 1} :
            /\ cmd.path \notin remote_files => status = 1
            /\ rm_status' = [p \in DOMAIN rm_status \cup {cmd.path} |->
                               IF p = cmd.path THEN status ELSE rm_status[p]]
            /\ remote_files' = IF status = 0 THEN remote_files \ {cmd.path}
                                ELSE remote_files
      /\ running' = running \ {cmd}
      /\ UNCHANGED <<fs, targets_yaml, targets, pc, exc, ti, ji, target_tarball_path,
                     uuid_next, session, exit_status, calls>>
    /\ UNCHANGED <<now, dest_files, naming>>

\* the loop of main as it would be without the close of line 112
CloseSkipped ==
    /\ pc = "close"
    /\ IF ti < Len(targets)
         THEN pc' = "connect" /\ ti' = ti + 1
         ELSE pc' = "done" /\ UNCHANGED ti
    /\ UNCHANGED <<fs, targets_yaml, targets, exc, ji, target_tarball_path, uuid_next,
                   running, exit_status, remote_files, session, calls>>
    /\ UNCHANGED <<rm_status, now, dest_files, naming>>

(* ---- ssh_client.close(), line 112, and the step of the outer loop ---- *)
Close ==
    /\ pc = "close"
    /\ session' = [session EXCEPT ![ti] = "closed"]
    /\ calls' = Append(calls, Call("close", [NoJob EXCEPT !.t = ti], 0, "ok"))
    /\ IF ti < Len(targets)
         THEN pc' = "connect" /\ ti' = ti + 1
         ELSE pc' = "done" /\ UNCHANGED ti
    /\ UNCHANGED <<fs, targets_yaml, targets, exc, ji, target_tarball_path, uuid_next,
                   running, exit_status, remote_files>>
    /\ UNCHANGED <<rm_status, now, dest_files, naming>>

Next ==
    \/ Mkdir
    \/ LoadTargets
    \/ Connect
    \/ CreateTarballExec
    \/ RemoteTarFinish
    \/ RecvExitStatus
    \/ CopyTarball
    \/ DeleteTarball
    \/ RemoteRmFinish
    \/ Close

Spec == Init /\ [][Next]_vars

(* ---- the run with the wall clock advancing ---- *)
\* a second passes; datetime.now() of line 63 reads the clock
Tick ==
    /\ now < MaxClock
    /\ pc \notin {"done", "raised", "naming"}
    /\ now' = now + 1
    /\ UNCHANGED <<fs, targets_yaml, targets, pc, exc, ti, ji, target_tarball_path,
                   uuid_next, session, running, exit_status, remote_files, calls,
                   rm_status, dest_files, naming>>

\* runs over declarations that load, into an existing, writable destination
InitClock ==
    /\ Init
    /\ fs.dest /\ fs.writable
    /\ \A t \in 1..Len(targets_yaml) : ValidatesOk(targets_yaml[t])

NextClock == Next \/ Tick

SpecClock == InitClock /\ [][NextClock]_vars

(* ---- the file name computation of copy_tarball alone ---- *)
Chars == {"a", "_"}

RECURSIVE Join(_)
Join(cs) == IF cs = <<>> THEN "" ELSE Head(cs) \o Join(Tail(cs))

\* name: str and the elements of child_targets: list[str] are arbitrary strings;
\* the names drawn here begin and end with a letter
Names ==
    {Join(cs) : cs \in {x \in SeqUpTo(Chars, MaxNameLen) \ {<<>>} :
                           x[1] = "a" /\ x[Len(x)] = "a"}}

Times == 0..MaxClock

\* two jobs, each with the host name, the child name and the clock value of its copy
InitNames ==
    /\ naming \in [host1 : Names, child1 : Names, t1 : Times,
                    host2 : Names, child2 : Names, t2 : Times,
                    file1 : {""}, file2 : {""}]
    /\ fs = [dest |-> TRUE, parent |-> TRUE, writable |-> TRUE]
    /\ targets_yaml = <<>>
    /\ targets = <<>>
    /\ pc = "naming"
    /\ exc = "none"
    /\ ti = 0
    /\ ji = 0
    /\ target_tarball_path = 0
    /\ uuid_next = 1
    /\ session = <<>>
    /\ running = {}
    /\ exit_status = <<>>
    /\ remote_files = {}
    /\ calls = <<>>
    /\ rm_status = <<>>
    /\ now = 0
    /\ dest_files = {}

\* line 63 for both jobs
ComputeNames ==
    /\ pc = "naming"
    /\ naming.file1 = ""
    /\ naming' = [naming EXCEPT
                    !.file1 = TargetFileName(naming.host1, naming.child1, naming.t1),
                    !.file2 = TargetFileName(naming.host2, naming.child2, naming.t2)]
    /\ UNCHANGED <<fs, targets_yaml, targets, pc, exc, ti, ji, target_tarball_path,
                   uuid_next, session, running, exit_status, remote_files, calls,
                   rm_status, now, dest_files>>

NextNames == ComputeNames

SpecNames == InitNames /\ [][NextNames]_vars

(***************************************************************************)
(* The properties                                                          *)
(***************************************************************************)
Idx == 1..Len(calls)

Ended == pc \in {"done", "raised"}

\* a declaration as the specification wants it: every required field present
\* and no child path empty
DeclValid(decl) ==
    /\ RequiredFields \subseteq decl.keys
    /\ \A d \in 1..Len(decl.directories) :
         \A c \in 1..Len(decl.directories[d].child_targets) :
            decl.directories[d].child_targets[c] # ""

AllDeclsValid == \A t \in 1..Len(targets_yaml) : DeclValid(targets_yaml[t])

\* the (host, parent, child) combinations targets.yaml declares
DeclaredJobsOf(t) ==
    {[t |-> t, d |-> p.d, c |-> p.c] :
        p \in {PairsFrom(targets_yaml[t].directories, 1, 1)[k] :
                 k \in 1..Len(PairsFrom(targets_yaml[t].directories, 1, 1))}}

DeclaredJobs == UNION {DeclaredJobsOf(t) : t \in 1..Len(targets_yaml)}

CallsOf(op, job) == {i \in Idx : calls[i].op = op /\ calls[i].job = job}

HostCall(t) == [NoJob EXCEPT !.t = t]

\* C1: when a run over valid declarations (destination ensured) has ended, every
\* declared (host, parent, child) combination had its archive step attempted
\* exactly once, whatever failed before it.
C1_EveryJobArchivedOnce ==
    (Ended /\ fs.dest /\ AllDeclsValid) =>
        \A job \in DeclaredJobs : Cardinality(CallsOf("exec_tar", job)) = 1

\* C2: (valid declarations) a job whose tar command ended with a nonzero exit status never has its
\* transfer (sftp.get) invoked.
C2_NoTransferAfterFailedArchive ==
    AllDeclsValid => \A i \in Idx :
        (calls[i].op = "exit_status" /\ calls[i].res # 0) =>
            CallsOf("get", calls[i].job) = {}

\* C3: when a run over valid declarations has ended, every job whose archive step ran has had its
\* cleanup (rm) invoked, and the rm is the last call of that job, after the
\* archive and after the transfer if there was one.
C3_CleanupAlwaysLast ==
    (Ended /\ AllDeclsValid) =>
        \A i \in Idx :
            (calls[i].op = "exec_tar" /\ calls[i].res = "ok") =>
                \E k \in CallsOf("exec_rm", calls[i].job) :
                    \A m \in Idx : calls[m].job = calls[i].job => m <= k

\* C4: when the run has ended, a failed connect of one host has not kept any
\* later declared host from being connected to and from having all its jobs
\* processed.
C4_ConnectFailureIsolated ==
    (Ended /\ fs.dest /\ AllDeclsValid) =>
        \A i \in Idx :
            (calls[i].op = "connect" /\ calls[i].res = "raise") =>
                \A t \in (calls[i].job.t + 1)..Len(targets_yaml) :
                    /\ CallsOf("connect", HostCall(t)) # {}
                    /\ \A job \in DeclaredJobsOf(t) : CallsOf("exec_tar", job) # {}

\* C5: when a run over valid declarations has ended, every session that connect opened has been
\* closed exactly once.
C5_SessionClosedOnce ==
    (Ended /\ AllDeclsValid) =>
        \A i \in Idx :
            (calls[i].op = "connect" /\ calls[i].res = "ok") =>
                /\ Cardinality(CallsOf("close", calls[i].job)) = 1
                /\ session[calls[i].job.t] = "closed"

\* C6: the transfer of a job starts only after the tar command of that job has
\* finished on the remote host and its exit status has been received.
C6_TransferAfterArchiveDone ==
    /\ \A i \in Idx :
          calls[i].op = "get" =>
              \E k \in 1..(i - 1) :
                  /\ calls[k].op = "exit_status"
                  /\ calls[k].job = calls[i].job
                  /\ calls[k].path = calls[i].path
    /\ pc = "copy" =>
          /\ target_tarball_path \in DOMAIN exit_status
          /\ \A cmd \in running : cmd.path = target_tarball_path => cmd.kind # "tar"

\* a transfer has been started (and went through)
C6_Witness == \E i \in Idx : calls[i].op = "get" /\ calls[i].res = "ok"

\* C7: (valid declarations) jobs on one session never overlap: the remote commands running on one
\* host all belong to one job, and none runs on a host whose session is closed.
C7_JobsNeverOverlap ==
    AllDeclsValid =>
        /\ \A c1, c2 \in running : c1.job.t = c2.job.t => c1.job = c2.job
        /\ \A cmd \in running : session[cmd.job.t] = "open"

\* every connect, archive and transfer made so far succeeded
AllSucceeded ==
    \A i \in Idx :
        /\ calls[i].op \in {"connect", "exec_tar", "get"} => calls[i].res = "ok"
        /\ calls[i].op = "exit_status" => calls[i].res = 0

\* C8: when a run over valid declarations in which every connect, archive and transfer succeeded has
\* ended, no scratch archive remains on any remote host.
C8_NoScratchFileLeft ==
    (pc = "done" /\ AllDeclsValid /\ AllSucceeded) => remote_files = {}

\* C9: a run whose destination root exists or was created and whose
\* declarations are valid ends normally, whatever connection, archive, transfer
\* or cleanup failures occurred.
C9_RunEndsNormally ==
    (Ended /\ fs.dest /\ AllDeclsValid) => (pc = "done" /\ exc = "none")

\* C10: if any declaration is invalid (a required field absent or a child path
\* empty) connect is never called and main is left with a validation error.
C10_InvalidAbortsBeforeConnect ==
    ~AllDeclsValid =>
        /\ \A i \in Idx : calls[i].op # "connect"
        /\ Ended => (pc = "raised" /\ exc \in {"OSError", "ValidationError"})

\* C11: once main is past the mkdir step the destination root exists whenever
\* it existed or could be created (the whole tree, also with the parent
\* absent); otherwise main was left with OSError and no transport call was made.
C11_DestinationRootEnsured ==
    pc \notin {"mkdir", "naming"} =>
        /\ fs.writable => fs.dest
        /\ fs.dest => exc # "OSError"
        /\ ~fs.dest => (pc = "raised" /\ exc = "OSError" /\ calls = <<>>)

\* C12: two jobs of targets with different host names get different artifact
\* file names, for all child names and all clock values.
C12_DifferentHostsDifferentFiles ==
    (naming.file1 # "" /\ naming.host1 # naming.host2) => naming.file1 # naming.file2

\* the get calls that went through
Transferred == {i \in Idx : calls[i].op = "get" /\ calls[i].res = "ok"}

\* C13: when a run over valid declarations has ended, the destination directory
\* holds one artifact file per successfully transferred job.
C13_OneArtifactPerTransfer ==
    (Ended /\ AllDeclsValid) => Cardinality(dest_files) = Cardinality(Transferred)

JobOps == {"exec_tar", "exit_status", "get", "exec_rm"}

\* C14: connects are made in declaration order, every declared host has exactly
\* one connect when the run has ended, and every Exec and Fetch of a job is
\* made after the successful connect of its host with no other connect and no
\* close in between.
C14_OneSessionPerHostInOrder ==
    /\ \A i, k \in Idx :
          (i < k /\ calls[i].op = "connect" /\ calls[k].op = "connect") =>
              calls[i].job.t < calls[k].job.t
    /\ (Ended /\ fs.dest /\ AllDeclsValid) =>
          \A t \in 1..Len(targets_yaml) :
              Cardinality(CallsOf("connect", HostCall(t))) = 1
    /\ \A i \in Idx :
          calls[i].op \in JobOps =>
              \E k \in 1..(i - 1) :
                  /\ calls[k] = Call("connect", HostCall(calls[i].job.t), 0, "ok")
                  /\ \A m \in (k + 1)..(i - 1) : calls[m].op \notin {"connect", "close"}

\* C15: the rm of a job is issued once and never again, main is never left
\* because of an rm that ended with a nonzero status (it is only ever left by a
\* call that raised), and the end of an rm command, whatever its status,
\* changes nothing in main.
C15_CleanupFailureIgnored ==
    /\ [](/\ \A i \in Idx :
               calls[i].op = "exec_rm" =>
                   Cardinality(CallsOf("exec_rm", calls[i].job)) = 1
          /\ (pc = "raised" /\ exc \notin {"OSError", "ValidationError"}) =>
               (calls # <<>> /\ calls[Len(calls)].res = "raise"))
    /\ [][rm_status' # rm_status =>
            UNCHANGED <<pc, exc, ti, ji, target_tarball_path, session, calls>>]_vars

\* an rm ended with a nonzero status, a later job was archived and the run
\* ended normally
C15_Witness ==
    /\ pc = "done"
    /\ \E p \in DOMAIN rm_status :
          /\ rm_status[p] = 1
          /\ \E i \in Idx : calls[i].op = "exec_tar" /\ calls[i].path > p

\* the state of a job, from the last call made for it
JobState(job) ==
    LET mine == {i \in Idx : calls[i].job = job}
        last == calls[CHOOSE i \in mine : \A k \in mine : k <= i]
    IN  IF mine = {} THEN "Pending"
        ELSE IF last.op = "exec_tar" THEN "Archiving"
        ELSE IF last.op = "exit_status"
               THEN (IF last.res = 0 THEN "Archived" ELSE "ArchiveFailed")
        ELSE IF last.op = "get"
               THEN (IF last.res = "ok" THEN "Transferred" ELSE "TransferFailed")
        ELSE IF last.res = "ok" THEN "Done" ELSE "Cleaning"

\* C16: when a run over valid declarations in which every tar command could be
\* started has ended, every job that left Pending is Done, and no job went from
\* ArchiveFailed to Transferring.
C16_EveryStartedJobDone ==
    (Ended /\ AllDeclsValid /\ \A i \in Idx : calls[i].op = "exec_tar" => calls[i].res = "ok") =>
        \A job \in DeclaredJobs :
            /\ JobState(job) \in {"Pending", "Done"}
            /\ \A i \in CallsOf("exit_status", job) :
                  calls[i].res # 0 => CallsOf("get", job) = {}

\* C17: the tar, get and rm of one job name one path, the path main holds while
\* the job is processed; two jobs never name the same path, so an rm started
\* for one job names the archive of no other job.
C17_OneTempPathPerJob ==
    /\ \A i, k \in Idx :
          (calls[i].op \in JobOps /\ calls[k].op \in JobOps) =>
              (calls[i].job = calls[k].job <=> calls[i].path = calls[k].path)
    /\ \A cmd \in running :
          \A i \in Idx : (calls[i].op = "exec_tar" /\ calls[i].path = cmd.path) =>
                            calls[i].job = cmd.job
    /\ pc \in {"tar_wait", "copy", "rm"} =>
          \A i \in CallsOf("exec_tar", Job(ti, ji)) : calls[i].path = target_tarball_path

\* two jobs have been cleaned up
C17_Witness ==
    \E i, k \in Idx :
        /\ calls[i].op = "exec_rm" /\ calls[k].op = "exec_rm"
        /\ calls[i].job # calls[k].job

\* C18: at most one session is open at any time, and every connect is made
\* after the close of every session opened before it; this holds in the runs
\* that an exception ends as well.
C18_AtMostOneSessionOpen ==
    /\ Cardinality({t \in DOMAIN session : session[t] = "open"}) <= 1
    /\ \A i \in Idx :
          calls[i].op = "connect" =>
              \A k \in 1..(i - 1) :
                  (calls[k].op = "connect" /\ calls[k].res = "ok") =>
                      \E m \in (k + 1)..(i - 1) :
                          calls[m].op = "close" /\ calls[m].job = calls[k].job

\* a second host was connected to, and the run was then ended by an exception
C18_Witness ==
    /\ pc = "raised"
    /\ \E i \in Idx : calls[i].op = "connect" /\ calls[i].res = "ok" /\ calls[i].job.t = 2

====
